---- MODULE Spec2Model ----
(***************************************************************************)
(* Model of the real-time transcription WebSocket relay of                 *)
(* app/backend/app.py: the TranscriptionManager class, the connection      *)
(* handler handle_transcribe_ws, the Speech SDK callback thread that       *)
(* raises recognition events, the event loop that runs the scheduled       *)
(* _send_message coroutines, and the /health handler.                      *)
(*                                                                         *)
(* The handler is cut at its suspension points (the awaits), so that the   *)
(* scheduled sends and the callback thread interleave with it exactly      *)
(* where the event loop lets them.                                         *)
(***************************************************************************)
EXTENDS Integers, Sequences, FiniteSets, TLC

\* ------------------------------------------------------------------ bounds
\* Inbound frames the handler reads in one connection.
MaxFrames == 2
\* Upstream events the callback thread raises in one connection.
MaxEvents == 2
\* Calls of start_recognition / stop_recognition in the manager-only
\* specification SpecMgr.
MaxCalls == 4
\* Connections open at the same time in the specification SpecPool.
MaxConns == 2

VARIABLES
    api_key,            \* os.getenv("api_key") is set
    region,             \* os.getenv("region") is set
    pc,                 \* position of handle_transcribe_ws
    exitPath,           \* how the message loop was left ("" while not left)
    pendingExc,         \* text of the exception being handled / propagating
    speech_recognizer,  \* self.speech_recognizer: "None" or "Recognizer"
    is_running,         \* self.is_running
    sessions,           \* upstream continuous-recognition sessions active
    calls,              \* history of start_recognition / stop_recognition calls
    wsOpen,             \* the socket still accepts writes
    sent,               \* every message handed to ws.send_json, in order
    wire,               \* the frames ws.send_json wrote to the socket, in order
    queue,              \* _send_message coroutines submitted to the loop
    lastFrame,          \* the inbound frame read last
    nframes,            \* inbound frames read
    lastEvent,          \* the upstream event raised last
    nevents,            \* upstream events raised
    utt,                \* the utterance the upstream engine is working on
    futureExc,          \* exception a _send_message coroutine ended with
    health,             \* body of the last /health response
    handlers,           \* SpecPool: each connection's handler (position, locals)
    managers,           \* SpecPool: the TranscriptionManager objects
    engines,            \* SpecPool: the SpeechRecognizer objects
    sockets,            \* SpecPool: messages handed to each connection's socket
    loopq,              \* SpecPool: coroutines submitted to the shared loop
    raised              \* SpecPool: upstream events raised so far

connVars == <<api_key, region, pc, exitPath, pendingExc, speech_recognizer,
              is_running, sessions, calls, wsOpen, sent, wire, queue,
              lastFrame, nframes, lastEvent, nevents, utt, futureExc, health>>
poolVars == <<handlers, managers, engines, sockets, loopq, raised>>

vars == <<connVars, poolVars>>

envVars   == <<api_key, region>>
mgrVars   == <<speech_recognizer, is_running, sessions, calls>>
sockVars  == <<wsOpen, sent, wire>>
frameVars == <<lastFrame, nframes>>
eventVars == <<lastEvent, nevents, utt>>

None == "None"
NoResponse == [status |-> "", message |-> ""]
NoFrame == [type |-> "NONE", data |-> ""]
NoEvent == [kind |-> "NONE", reason |-> "", text |-> "", details |-> "", n |-> 0, utt |-> 0]

\* ------------------------------------------------------------ json.loads
\* The text payloads the client sends in this model.
Payloads ==
    { "{\"action\":\"close\"}", "{\"action\":\"ping\"}", "{}", "[]", "not json" }

\* json.loads on those payloads: the parsed value (its Python type and, for
\* an object, its members) or the JSONDecodeError text.
JsonLoads(s) ==
    CASE s = "{\"action\":\"close\"}" ->
            [ok |-> TRUE, kind |-> "dict", members |-> {<<"action", "close">>}, err |-> ""]
      [] s = "{\"action\":\"ping\"}" ->
            [ok |-> TRUE, kind |-> "dict", members |-> {<<"action", "ping">>}, err |-> ""]
      [] s = "{}" ->
            [ok |-> TRUE, kind |-> "dict", members |-> {}, err |-> ""]
      [] s = "[]" ->
            [ok |-> TRUE, kind |-> "list", members |-> {}, err |-> ""]
      [] OTHER ->
            [ok |-> FALSE, kind |-> "", members |-> {},
             err |-> "Expecting value: line 1 column 1 (char 0)"]

\* data.get: only a dict has it; any other parsed value raises AttributeError.
HasGet(data) == data.kind = "dict"

DictGet(data, key) ==
    IF \E p \in data.members : p[1] = key
    THEN (CHOOSE p \in data.members : p[1] = key)[2]
    ELSE None

AttributeErrorText(data) ==
    "'" \o data.kind \o "' object has no attribute 'get'"

\* The inbound frames: text frames with a payload, and the transport's
\* ERROR, CLOSE and BINARY frames.
Frames ==
    { [type |-> "TEXT", data |-> p] : p \in Payloads }
    \cup { [type |-> t, data |-> ""] : t \in {"ERROR", "CLOSE", "BINARY"} }

\* --------------------------------------------------------------- messages
\* A message built by the handler while it works on inbound frame number fr
\* (0: before the loop), and a message built by the callback of event evt.
HandlerMsg(type, text, fr) ==
    [type |-> type, text |-> text, ev |-> 0, utt |-> 0, fr |-> fr]

EventMsg(type, text, evt) ==
    [type |-> type, text |-> text, ev |-> evt.n, utt |-> evt.utt, fr |-> 0]

\* ws.send_json raises once the transport is closing.
WriteErrorText == "Cannot write to closing transport"

\* await self.ws.send_json(message): the message is handed to the socket;
\* it is written when the socket accepts writes, and the call raises
\* otherwise.
ws_send_json(m) ==
    /\ sent' = Append(sent, m)
    /\ wire' = IF wsOpen THEN Append(wire, m) ELSE wire

\* ------------------------------------------------------ TranscriptionManager
InitFaults == {"none", "constructor", "connect"}

InitFails(fault) == ~api_key \/ ~region \/ fault /= "none"

InitErrorText(fault) ==
    IF ~api_key \/ ~region
    THEN "Please set api_key and region in your .env file"
    ELSE "SpeechRecognizer error: " \o fault

\* initialize_speech_recognizer with line 41 testing the key alone
\* ("if not speech_key"): a missing region goes unnoticed.
initialize_speech_recognizer_KeyOnly(fault) ==
    /\ speech_recognizer' =
          IF api_key /\ fault \in {"none", "connect"}
          THEN "Recognizer" ELSE speech_recognizer
    /\ IF ~api_key \/ fault /= "none"
       THEN ws_send_json(HandlerMsg("error",
               "Failed to initialize speech recognition: " \o InitErrorText(fault), 0))
       ELSE UNCHANGED <<sent, wire>>

\* TranscriptionManager.initialize_speech_recognizer. fault is where the SDK
\* raises, if it does. A failure is reported to the client with one error
\* message; the recognizer is assigned before its handlers are connected.
initialize_speech_recognizer(fault) ==
    /\ speech_recognizer' =
          IF api_key /\ region /\ fault \in {"none", "connect"}
          THEN "Recognizer" ELSE speech_recognizer
    /\ IF InitFails(fault)
       THEN ws_send_json(HandlerMsg("error",
               "Failed to initialize speech recognition: " \o InitErrorText(fault), 0))
       ELSE UNCHANGED <<sent, wire>>

\* start_recognition with lines 116 and 117 exchanged: the flag is set
\* before start_continuous_recognition is called.
start_recognition_FlagFirst(ok) ==
    IF speech_recognizer /= None /\ ~is_running
    THEN /\ calls' = Append(calls, [op |-> "start", invoked |-> TRUE, ok |-> ok])
         /\ is_running' = TRUE
         /\ sessions' = IF ok THEN sessions + 1 ELSE sessions
         /\ UNCHANGED speech_recognizer
    ELSE /\ calls' = Append(calls, [op |-> "start", invoked |-> FALSE, ok |-> TRUE])
         /\ UNCHANGED <<speech_recognizer, is_running, sessions>>

\* start_recognition without the "not self.is_running" test of line 114.
start_recognition_NoRunningTest(ok) ==
    IF speech_recognizer /= None
    THEN /\ calls' = Append(calls, [op |-> "start", invoked |-> TRUE, ok |-> ok])
         /\ is_running' = IF ok THEN TRUE ELSE is_running
         /\ sessions' = IF ok THEN sessions + 1 ELSE sessions
         /\ UNCHANGED speech_recognizer
    ELSE /\ calls' = Append(calls, [op |-> "start", invoked |-> FALSE, ok |-> TRUE])
         /\ UNCHANGED <<speech_recognizer, is_running, sessions>>

\* TranscriptionManager.start_recognition. ok: start_continuous_recognition
\* returns (TRUE) or raises (FALSE).
start_recognition(ok) ==
    IF speech_recognizer /= None /\ ~is_running
    THEN /\ calls' = Append(calls, [op |-> "start", invoked |-> TRUE, ok |-> ok])
         /\ is_running' = IF ok THEN TRUE ELSE is_running
         /\ sessions' = IF ok THEN sessions + 1 ELSE sessions
         /\ UNCHANGED speech_recognizer
    ELSE /\ calls' = Append(calls, [op |-> "start", invoked |-> FALSE, ok |-> TRUE])
         /\ UNCHANGED <<speech_recognizer, is_running, sessions>>

\* stop_recognition that clears the flag without calling
\* stop_continuous_recognition (line 126 left out).
stop_recognition_FlagOnly(ok) ==
    /\ calls' = Append(calls, [op |-> "stop", invoked |-> FALSE, ok |-> TRUE])
    /\ is_running' = FALSE
    /\ UNCHANGED <<speech_recognizer, sessions>>

\* stop_recognition without the "self.is_running" test of line 124.
stop_recognition_NoRunningTest(ok) ==
    IF speech_recognizer /= None
    THEN /\ calls' = Append(calls, [op |-> "stop", invoked |-> TRUE, ok |-> ok])
         /\ is_running' = IF ok THEN FALSE ELSE is_running
         /\ sessions' = IF ok /\ sessions > 0 THEN sessions - 1 ELSE sessions
         /\ UNCHANGED speech_recognizer
    ELSE /\ calls' = Append(calls, [op |-> "stop", invoked |-> FALSE, ok |-> TRUE])
         /\ UNCHANGED <<speech_recognizer, is_running, sessions>>

\* TranscriptionManager.stop_recognition. ok: stop_continuous_recognition
\* returns (TRUE) or raises (FALSE).
stop_recognition(ok) ==
    IF speech_recognizer /= None /\ is_running
    THEN /\ calls' = Append(calls, [op |-> "stop", invoked |-> TRUE, ok |-> ok])
         /\ is_running' = IF ok THEN FALSE ELSE is_running
         /\ sessions' = IF ok THEN sessions - 1 ELSE sessions
         /\ UNCHANGED speech_recognizer
    ELSE /\ calls' = Append(calls, [op |-> "stop", invoked |-> FALSE, ok |-> TRUE])
         /\ UNCHANGED <<speech_recognizer, is_running, sessions>>

\* Counters read off the call history.
CallsOf(op) == { i \in 1..Len(calls) : calls[i].op = op }
EngineCallsOf(op) == { i \in CallsOf(op) : calls[i].invoked }
EngineOkOf(op) == { i \in EngineCallsOf(op) : calls[i].ok }
startCalls == Cardinality(CallsOf("start"))
stopCalls == Cardinality(CallsOf("stop"))
engineStarts == Cardinality(EngineCallsOf("start"))
engineStops == Cardinality(EngineCallsOf("stop"))

\* ------------------------------------------------------------ connections
\* The connections the application serves at the same time, each one a call
\* of handle_transcribe_ws on the one event loop. Objects are named by
\* numbers: the manager and the recognizer a handler creates are new
\* objects, named after the connection that created them.
Conns == 1..MaxConns
NoRec == 0

\* No connection accepted yet.
PoolIdle ==
    /\ handlers = [c \in Conns |->
          [pc |-> "idle", transcription_manager |-> NoRec, started |-> FALSE]]
    /\ managers = [m \in Conns |->
          [ws |-> NoRec, speech_recognizer |-> NoRec, is_running |-> FALSE]]
    /\ engines = [r \in Conns |->
          [bound |-> NoRec, active |-> FALSE, began |-> FALSE]]
    /\ sockets = [c \in Conns |-> <<>>]
    /\ loopq = <<>>
    /\ raised = 0

\* ------------------------------------------------------------------- Init
Init ==
    /\ api_key \in BOOLEAN
    /\ region \in BOOLEAN
    /\ pc = "init"
    /\ exitPath = ""
    /\ pendingExc = ""
    /\ speech_recognizer = None
    /\ is_running = FALSE
    /\ sessions = 0
    /\ calls = <<>>
    /\ wsOpen = TRUE
    /\ sent = <<>>
    /\ wire = <<>>
    /\ queue = <<>>
    /\ lastFrame = NoFrame
    /\ nframes = 0
    /\ lastEvent = NoEvent
    /\ nevents = 0
    /\ utt = 1
    /\ futureExc = ""
    /\ health = NoResponse
    /\ PoolIdle


\* ------------------------------------------------- handle_transcribe_ws
\* The relay's state, read off the handler's position.
LoopState ==
    CASE pc \in {"init", "start"} -> "AWAITING_INIT"
      [] pc = "loop" -> "ACTIVE"
      [] OTHER -> "CLOSED"

Returned == pc \in {"done", "raised"}

\* Connect with the early return of line 146 left out: a failed
\* initialization falls through to start_recognition and the message loop.
Connect_ProceedOnFailure(fault) ==
    /\ pc = "init"
    /\ initialize_speech_recognizer(fault)
    /\ pc' = IF InitFails(fault) /\ ~wsOpen THEN "raised" ELSE "start"
    /\ pendingExc' = IF InitFails(fault) /\ ~wsOpen THEN WriteErrorText ELSE ""
    /\ wsOpen' = IF InitFails(fault) /\ ~wsOpen THEN FALSE ELSE wsOpen
    /\ UNCHANGED <<envVars, exitPath, is_running, sessions, calls, queue,
                   frameVars, eventVars, futureExc, health, poolVars>>

\* Lines 136-146: prepare the socket, build the manager, initialize the
\* recognizer. When initialization fails the handler returns the socket at
\* once; when the error report itself cannot be written, the exception
\* leaves initialize_speech_recognizer's except block and the handler.
Connect(fault) ==
    /\ pc = "init"
    /\ initialize_speech_recognizer(fault)
    /\ IF ~InitFails(fault)
       THEN /\ pc' = "start"
            /\ UNCHANGED <<pendingExc, wsOpen>>
       ELSE /\ pc' = IF wsOpen THEN "done" ELSE "raised"
            /\ pendingExc' = IF wsOpen THEN "" ELSE WriteErrorText
            /\ wsOpen' = FALSE
    /\ UNCHANGED <<envVars, exitPath, is_running, sessions, calls, queue,
                   frameVars, eventVars, futureExc, health, poolVars>>

\* Line 149.
StartRecognition(ok) ==
    /\ pc = "start"
    /\ start_recognition(ok)
    /\ pc' = "loop"
    /\ UNCHANGED <<envVars, exitPath, pendingExc, sockVars, queue,
                   frameVars, eventVars, futureExc, health, poolVars>>

\* LoopBody with the report of lines 164-167 left out: a frame that is not
\* JSON is only logged.
LoopBody_SilentBadJson(msg) ==
    LET data == JsonLoads(msg.data)
        stay == /\ pc' = "loop"
                /\ UNCHANGED <<exitPath, pendingExc, sent, wire>>
        leave(path) == /\ pc' = "finally"
                       /\ exitPath' = path
                       /\ UNCHANGED <<pendingExc, sent, wire>>
        raise(text) == /\ pc' = "except"
                       /\ exitPath' = "exception"
                       /\ pendingExc' = text
    IN  CASE msg.type = "TEXT" /\ data.ok /\ ~HasGet(data) ->
                raise(AttributeErrorText(data)) /\ UNCHANGED <<sent, wire>>
          [] msg.type = "TEXT" /\ data.ok /\ HasGet(data) ->
                IF DictGet(data, "action") = "close"
                THEN leave("close_request")
                ELSE stay
          [] msg.type = "TEXT" /\ ~data.ok -> stay
          [] msg.type = "ERROR" -> leave("transport_error")
          [] msg.type = "CLOSE" -> leave("transport_close")
          [] OTHER -> stay

\* LoopBody with a final "else: break": a frame of any other type ends the
\* loop.
LoopBody_BreakOnOther(msg) ==
    LET data == JsonLoads(msg.data)
        stay == /\ pc' = "loop"
                /\ UNCHANGED <<exitPath, pendingExc, sent, wire>>
        leave(path) == /\ pc' = "finally"
                       /\ exitPath' = path
                       /\ UNCHANGED <<pendingExc, sent, wire>>
        raise(text) == /\ pc' = "except"
                       /\ exitPath' = "exception"
                       /\ pendingExc' = text
    IN  CASE msg.type = "TEXT" /\ data.ok /\ ~HasGet(data) ->
                raise(AttributeErrorText(data)) /\ UNCHANGED <<sent, wire>>
          [] msg.type = "TEXT" /\ data.ok /\ HasGet(data) ->
                IF DictGet(data, "action") = "close"
                THEN leave("close_request")
                ELSE stay
          [] msg.type = "TEXT" /\ ~data.ok ->
                /\ ws_send_json(HandlerMsg("error", "Invalid JSON: " \o data.err, nframes + 1))
                /\ IF wsOpen
                   THEN pc' = "loop" /\ UNCHANGED <<exitPath, pendingExc>>
                   ELSE raise(WriteErrorText)
          [] msg.type = "ERROR" -> leave("transport_error")
          [] msg.type = "CLOSE" -> leave("transport_close")
          [] OTHER -> leave("transport_close")

\* Lines 152-174: one iteration of "async for msg in ws" on frame msg.
LoopBody(msg) ==
    LET data == JsonLoads(msg.data)
        stay == /\ pc' = "loop"
                /\ UNCHANGED <<exitPath, pendingExc, sent, wire>>
        leave(path) == /\ pc' = "finally"
                       /\ exitPath' = path
                       /\ UNCHANGED <<pendingExc, sent, wire>>
        raise(text) == /\ pc' = "except"
                       /\ exitPath' = "exception"
                       /\ pendingExc' = text
    IN  CASE msg.type = "TEXT" /\ data.ok /\ ~HasGet(data) ->
                raise(AttributeErrorText(data)) /\ UNCHANGED <<sent, wire>>
          [] msg.type = "TEXT" /\ data.ok /\ HasGet(data) ->
                IF DictGet(data, "action") = "close"
                THEN leave("close_request")
                ELSE stay
          [] msg.type = "TEXT" /\ ~data.ok ->
                /\ ws_send_json(HandlerMsg("error", "Invalid JSON: " \o data.err, nframes + 1))
                /\ IF wsOpen
                   THEN pc' = "loop" /\ UNCHANGED <<exitPath, pendingExc>>
                   ELSE raise(WriteErrorText)
          [] msg.type = "ERROR" -> leave("transport_error")
          [] msg.type = "CLOSE" -> leave("transport_close")
          [] OTHER -> stay

Receive(msg) ==
    /\ pc = "loop"
    /\ nframes < MaxFrames
    /\ lastFrame' = msg
    /\ nframes' = nframes + 1
    /\ LoopBody(msg)
    /\ UNCHANGED <<envVars, mgrVars, wsOpen, queue, eventVars, futureExc, health, poolVars>>

\* ExceptHandler that stops recognition itself before it reports the
\* exception.
ExceptHandler_StopFirst ==
    /\ pc = "except"
    /\ stop_recognition(TRUE)
    /\ ws_send_json(HandlerMsg("error", "Server error: " \o pendingExc, nframes))
    /\ pendingExc' = IF wsOpen THEN "" ELSE WriteErrorText
    /\ pc' = "finally"
    /\ UNCHANGED <<envVars, exitPath, wsOpen, queue, frameVars, eventVars,
                   futureExc, health, poolVars>>

\* ExceptHandler that only logs the exception (lines 178-181 left out).
ExceptHandler_LogOnly ==
    /\ pc = "except"
    /\ pendingExc' = ""
    /\ pc' = "finally"
    /\ UNCHANGED <<envVars, exitPath, mgrVars, sockVars, queue, frameVars,
                   eventVars, futureExc, health, poolVars>>

\* Lines 176-181: the loop's outer except clause reports the exception to
\* the client. When that write fails too, the new exception propagates
\* through the finally clause to the caller.
ExceptHandler ==
    /\ pc = "except"
    /\ ws_send_json(HandlerMsg("error", "Server error: " \o pendingExc, nframes))
    /\ pendingExc' = IF wsOpen THEN "" ELSE WriteErrorText
    /\ pc' = "finally"
    /\ UNCHANGED <<envVars, exitPath, mgrVars, wsOpen, queue, frameVars,
                   eventVars, futureExc, health, poolVars>>

\* Finally with stop_recognition placed after the try statement instead of
\* in its finally clause: a propagating exception skips it.
Finally_StopAfterTry(ok) ==
    /\ pc = "finally"
    /\ IF pendingExc = "" THEN stop_recognition(ok) ELSE UNCHANGED mgrVars
    /\ pc' = IF pendingExc = "" THEN "done" ELSE "raised"
    /\ wsOpen' = FALSE
    /\ UNCHANGED <<envVars, exitPath, pendingExc, sent, wire, queue,
                   frameVars, eventVars, futureExc, health, poolVars>>

\* Lines 182-187: the finally clause stops recognition, then the handler
\* returns the socket (the server closes it) or the propagating exception
\* leaves the handler.
Finally(ok) ==
    /\ pc = "finally"
    /\ stop_recognition(ok)
    /\ pc' = IF pendingExc = "" THEN "done" ELSE "raised"
    /\ wsOpen' = FALSE
    /\ UNCHANGED <<envVars, exitPath, pendingExc, sent, wire, queue,
                   frameVars, eventVars, futureExc, health, poolVars>>

\* The client's transport goes away while the handler is running: from then
\* on every ws.send_json raises.
TransportDrop ==
    /\ ~Returned
    /\ wsOpen
    /\ wsOpen' = FALSE
    /\ UNCHANGED <<envVars, pc, exitPath, pendingExc, mgrVars, sent, wire,
                   queue, frameVars, eventVars, futureExc, health, poolVars>>


\* ------------------------------------------- upstream events and callbacks
\* asyncio.run_coroutine_threadsafe(self._send_message(message), self.loop):
\* the callback thread only submits the coroutine; the loop runs submitted
\* coroutines in submission order.
run_coroutine_threadsafe(m) == queue' = Append(queue, m)

\* The callbacks run on the Speech SDK's thread. Each one builds its message
\* and submits it; none of them touches the socket or the manager's fields.

\* str() of a CancellationReason member inside the f-string.
ReasonStr(reason) == "CancellationReason." \o reason

\* _recognizing_handler awaiting the write itself, on the callback thread,
\* instead of submitting it to the loop.
_recognizing_handler_DirectWrite(evt) ==
    /\ ws_send_json(EventMsg("partial_transcript", evt.text, evt))
    /\ UNCHANGED <<mgrVars, queue>>

_recognizing_handler(evt) ==
    /\ run_coroutine_threadsafe(EventMsg("partial_transcript", evt.text, evt))
    /\ UNCHANGED <<mgrVars, sent, wire>>

\* _recognized_handler without the test of line 77: a final_transcript is
\* submitted whatever the result's reason.
_recognized_handler_AnyReason(evt) ==
    /\ run_coroutine_threadsafe(EventMsg("final_transcript", evt.text, evt))
    /\ UNCHANGED <<mgrVars, sent, wire>>

_recognized_handler(evt) ==
    /\ IF evt.reason = "RecognizedSpeech"
       THEN run_coroutine_threadsafe(EventMsg("final_transcript", evt.text, evt))
       ELSE UNCHANGED queue
    /\ UNCHANGED <<mgrVars, sent, wire>>

\* _canceled_handler with the test of line 88 left out: the details are
\* appended whatever the reason.
_canceled_handler_AlwaysDetails(evt) ==
    LET error_msg == "Recognition canceled. Reason: " \o ReasonStr(evt.reason)
        full == error_msg \o " Error details: " \o evt.details
    IN  /\ run_coroutine_threadsafe(EventMsg("error", full, evt))
        /\ UNCHANGED <<mgrVars, sent, wire>>

_canceled_handler(evt) ==
    LET error_msg == "Recognition canceled. Reason: " \o ReasonStr(evt.reason)
        full == IF evt.reason = "Error"
                THEN error_msg \o " Error details: " \o evt.details
                ELSE error_msg
    IN  /\ run_coroutine_threadsafe(EventMsg("error", full, evt))
        /\ UNCHANGED <<mgrVars, sent, wire>>

\* _session_stopped_handler that also ends the recognition: it calls
\* stop_recognition after submitting its message.
_session_stopped_handler_Stops(evt) ==
    /\ run_coroutine_threadsafe(EventMsg("info", "Session stopped", evt))
    /\ stop_recognition(TRUE)
    /\ UNCHANGED <<sent, wire>>

_session_stopped_handler(evt) ==
    /\ run_coroutine_threadsafe(EventMsg("info", "Session stopped", evt))
    /\ UNCHANGED <<mgrVars, sent, wire>>

\* _send_message without its try/except: the write's failure ends the
\* coroutine with the exception.
_send_message_NoTry(m) ==
    /\ ws_send_json(m)
    /\ futureExc' = IF wsOpen THEN futureExc ELSE WriteErrorText

\* TranscriptionManager._send_message: the write's failure is logged and
\* swallowed, so the coroutine ends without an exception.
_send_message(m) ==
    /\ ws_send_json(m)
    /\ futureExc' = futureExc

Event(kind, reason, text, details) ==
    [kind |-> kind, reason |-> reason, text |-> text, details |-> details,
     n |-> nevents + 1, utt |-> utt]

\* The engine raises events once continuous recognition was started; events
\* already under way may still arrive after the stop.
EngineStarted == speech_recognizer /= None /\ EngineOkOf("start") /= {}

Raise(evt) ==
    /\ EngineStarted
    /\ nevents < MaxEvents
    /\ lastEvent' = evt
    /\ nevents' = nevents + 1
    /\ utt' = IF evt.kind = "Recognized" THEN utt + 1 ELSE utt
    /\ UNCHANGED <<envVars, pc, exitPath, pendingExc, wsOpen, frameVars,
                   futureExc, health, poolVars>>

RaiseRecognizing ==
    \E text \in {"hel"} :
        LET evt == Event("Recognizing", "RecognizingSpeech", text, "")
        IN  Raise(evt) /\ _recognizing_handler(evt)

RaiseRecognized ==
    \E r \in {<<"RecognizedSpeech", "hello">>, <<"NoMatch", "">>} :
        LET evt == Event("Recognized", r[1], r[2], "")
        IN  Raise(evt) /\ _recognized_handler(evt)

RaiseCanceled ==
    \E reason \in {"Error", "EndOfStream"} :
        LET evt == Event("Canceled", reason, "", "connection lost")
        IN  Raise(evt) /\ _canceled_handler(evt)

RaiseSessionStopped ==
    LET evt == Event("SessionStopped", "", "", "")
    IN  Raise(evt) /\ _session_stopped_handler(evt)

\* An event loop that runs the newest submitted coroutine first.
RunScheduled_NewestFirst ==
    /\ queue /= <<>>
    /\ _send_message(queue[Len(queue)])
    /\ queue' = SubSeq(queue, 1, Len(queue) - 1)
    /\ UNCHANGED <<envVars, pc, exitPath, pendingExc, mgrVars, wsOpen,
                   frameVars, eventVars>>
    /\ UNCHANGED <<health, poolVars>>

\* The event loop runs the oldest submitted _send_message coroutine.
RunScheduled ==
    /\ queue /= <<>>
    /\ _send_message(Head(queue))
    /\ queue' = Tail(queue)
    /\ UNCHANGED <<envVars, pc, exitPath, pendingExc, mgrVars, wsOpen,
                   frameVars, eventVars>>
    /\ UNCHANGED <<health, poolVars>>

\* ------------------------------------------------------------ /health
HealthBody == [status |-> "ok", message |-> "Backend running"]

handle_health == health' = HealthBody

Health ==
    /\ handle_health
    /\ UNCHANGED <<envVars, pc, exitPath, pendingExc, mgrVars, sockVars,
                   queue, frameVars, eventVars, futureExc, poolVars>>

\* ------------------------------------------------------------------- Next
Next ==
    \/ \E fault \in InitFaults : Connect(fault)
    \/ \E ok \in BOOLEAN : StartRecognition(ok)
    \/ \E msg \in Frames : Receive(msg)
    \/ ExceptHandler
    \/ \E ok \in BOOLEAN : Finally(ok)
    \/ TransportDrop
    \/ RaiseRecognizing
    \/ RaiseRecognized
    \/ RaiseCanceled
    \/ RaiseSessionStopped
    \/ RunScheduled

Spec == Init /\ [][Next]_vars

\* The connection together with the /health route of the same application.
NextHealth ==
    \/ Next
    \/ Health

SpecHealth == Init /\ [][NextHealth]_vars

\* The event loop keeps running the handler: a handler that can take its
\* next step without waiting for the client takes it.
FairSpec ==
    /\ Spec
    /\ WF_vars(ExceptHandler)
    /\ WF_vars(\E ok \in BOOLEAN : Finally(ok))


\* ----------------------------------------- the manager's methods on their own
\* A TranscriptionManager driven by arbitrary sequences of start_recognition
\* and stop_recognition calls, with or without a recognizer attached.
InitMgr ==
    /\ api_key = TRUE
    /\ region = TRUE
    /\ pc = "api"
    /\ exitPath = ""
    /\ pendingExc = ""
    /\ speech_recognizer \in {None, "Recognizer"}
    /\ is_running = FALSE
    /\ sessions = 0
    /\ calls = <<>>
    /\ wsOpen = TRUE
    /\ sent = <<>>
    /\ wire = <<>>
    /\ queue = <<>>
    /\ lastFrame = NoFrame
    /\ nframes = 0
    /\ lastEvent = NoEvent
    /\ nevents = 0
    /\ utt = 1
    /\ futureExc = ""
    /\ health = NoResponse
    /\ PoolIdle

ApiStart(ok) ==
    /\ pc = "api"
    /\ Len(calls) < MaxCalls
    /\ start_recognition(ok)
    /\ UNCHANGED <<envVars, pc, exitPath, pendingExc, sockVars, queue,
                   frameVars, eventVars, futureExc, health, poolVars>>

ApiStop(ok) ==
    /\ pc = "api"
    /\ Len(calls) < MaxCalls
    /\ stop_recognition(ok)
    /\ UNCHANGED <<envVars, pc, exitPath, pendingExc, sockVars, queue,
                   frameVars, eventVars, futureExc, health, poolVars>>

NextMgr ==
    \/ \E ok \in BOOLEAN : ApiStart(ok)
    \/ \E ok \in BOOLEAN : ApiStop(ok)

SpecMgr == InitMgr /\ [][NextMgr]_vars


\* ------------------------------------------------- concurrent connections
\* Several calls of handle_transcribe_ws on the one event loop. Between the
\* construction of the manager (142) and the first read of the message loop
\* (152) a handler whose initialization succeeds never suspends, so the
\* three calls are one step; so are the way out of the loop and the finally
\* clause.

\* A manager shared by all the connections, in place of a new manager for
\* each of them.
NewManager_Shared(c) == CHOOSE m \in Conns : \A d \in Conns : m <= d

\* Line 142: transcription_manager = TranscriptionManager(ws) builds a new
\* object for the connection.
NewManager(c) == c

\* Line 49: SpeechRecognizer(...) builds a new object for the connection.
NewRecognizer(c) == c

\* A message in the pool: its type and the recognizer whose event it reports
\* (NoRec for the handler's own messages).
PoolMsg(type, r) == [type |-> type, rec |-> r]

\* The tests of lines 114 and 124 on a manager object.
PoolStartInvokes(mgr) == mgr.speech_recognizer /= NoRec /\ ~mgr.is_running
PoolStopInvokes(mgr) == mgr.speech_recognizer /= NoRec /\ mgr.is_running

\* Lines 142-149 for connection c. init_ok: initialize_speech_recognizer
\* succeeds; start_ok: start_continuous_recognition returns.
PoolOpen(c, init_ok, start_ok) ==
    /\ handlers[c].pc = "idle"
    /\ LET m == NewManager(c)
           made == [ws |-> c, speech_recognizer |-> NoRec, is_running |-> FALSE]
       IN  IF init_ok
           THEN LET r == NewRecognizer(c)
                    inited == [made EXCEPT !.speech_recognizer = r]
                    on == PoolStartInvokes(inited) /\ start_ok
                IN  /\ managers' = [managers EXCEPT
                          ![m] = [inited EXCEPT !.is_running = on]]
                    /\ engines' = [engines EXCEPT
                          ![r] = [bound |-> m, active |-> on, began |-> on]]
                    /\ handlers' = [handlers EXCEPT
                          ![c] = [pc |-> "loop", transcription_manager |-> m,
                                  started |-> on]]
                    /\ UNCHANGED sockets
           ELSE /\ managers' = [managers EXCEPT ![m] = made]
                /\ sockets' = [sockets EXCEPT
                      ![c] = Append(@, PoolMsg("error", NoRec))]
                /\ handlers' = [handlers EXCEPT
                      ![c] = [pc |-> "done", transcription_manager |-> m,
                              started |-> FALSE]]
                /\ UNCHANGED engines
    /\ UNCHANGED <<loopq, raised, connVars>>

\* Connection c leaves its message loop (a close, or an exception that is
\* reported first) and runs its finally clause: lines 158-185. stop_ok:
\* stop_continuous_recognition returns.
PoolClose(c, path, stop_ok) ==
    /\ handlers[c].pc = "loop"
    /\ LET m == handlers[c].transcription_manager
           mgr == managers[m]
           off == PoolStopInvokes(mgr) /\ stop_ok
       IN  /\ managers' = [managers EXCEPT
                 ![m].is_running = IF off THEN FALSE ELSE @]
           /\ engines' = IF off
                         THEN [engines EXCEPT ![mgr.speech_recognizer].active = FALSE]
                         ELSE engines
    /\ sockets' = IF path = "exception"
                  THEN [sockets EXCEPT ![c] = Append(@, PoolMsg("error", NoRec))]
                  ELSE sockets
    /\ handlers' = [handlers EXCEPT ![c].pc = "done"]
    /\ UNCHANGED <<loopq, raised, connVars>>

\* Recognizer r raises an intermediate result: the callback connected at
\* line 52 is a method of the manager it was connected from, and submits
\* that manager's _send_message to the loop.
PoolEvent(r) ==
    /\ engines[r].began
    /\ raised < MaxEvents
    /\ raised' = raised + 1
    /\ loopq' = Append(loopq, [self |-> engines[r].bound,
                               message |-> PoolMsg("partial_transcript", r)])
    /\ UNCHANGED <<handlers, managers, engines, sockets, connVars>>

\* The loop runs the oldest submitted coroutine: self.ws.send_json(message).
PoolRun ==
    /\ loopq /= <<>>
    /\ LET co == Head(loopq)
           ws == managers[co.self].ws
       IN  sockets' = [sockets EXCEPT ![ws] = Append(@, co.message)]
    /\ loopq' = Tail(loopq)
    /\ UNCHANGED <<handlers, managers, engines, raised, connVars>>

InitPool == Init /\ api_key /\ region

NextPool ==
    \/ \E c \in Conns : \E init_ok, start_ok \in BOOLEAN :
          PoolOpen(c, init_ok, start_ok)
    \/ \E c \in Conns : \E path \in {"close", "exception"} : \E stop_ok \in BOOLEAN :
          PoolClose(c, path, stop_ok)
    \/ \E r \in Conns : PoolEvent(r)
    \/ PoolRun

SpecPool == InitPool /\ [][NextPool]_vars


\* =================================================================== claims
ExitPaths == {"close_request", "transport_error", "transport_close", "exception"}

\* The messages a failed initialization reports.
InitErrorMsgs ==
    { HandlerMsg("error", "Failed to initialize speech recognition: " \o t, 0) :
        t \in { "Please set api_key and region in your .env file",
                "SpeechRecognizer error: constructor",
                "SpeechRecognizer error: connect" } }

InitFailed == Len(sent) > 0 /\ sent[1] \in InitErrorMsgs

\* C1: whichever way the handler leaves the message loop (close request,
\* transport ERROR frame, transport CLOSE frame, exception in the loop body),
\* stop_recognition is invoked exactly once for the connection: not before
\* the loop is left, once by the time the handler has ended, never twice.
C1_StopExactlyOnce ==
    /\ stopCalls <= 1
    /\ LoopState \in {"AWAITING_INIT", "ACTIVE"} => stopCalls = 0
    /\ (exitPath /= "") = (LoopState = "CLOSED" /\ nframes > 0)
    /\ exitPath /= "" => exitPath \in ExitPaths
    /\ (Returned /\ exitPath \in ExitPaths) => stopCalls = 1

\* The loop was left by an exception whose report could not be written, the
\* exception left the handler, and recognition was stopped once.
C1_Witness ==
    /\ pc = "raised"
    /\ exitPath = "exception"
    /\ stopCalls = 1
    /\ engineStops = 1

ValidJson(msg) == msg.type = "TEXT" /\ JsonLoads(msg.data).ok

IsCloseRequest(msg) ==
    /\ ValidJson(msg)
    /\ JsonLoads(msg.data).kind = "dict"
    /\ <<"action", "close">> \in JsonLoads(msg.data).members

\* C3 as stated: after a text frame of valid JSON that is not the close
\* request (an object, an array, ...), the loop is still ACTIVE, no
\* message was built because of the frame and stop_recognition was not called.
C3_Original ==
    (nframes > 0 /\ ValidJson(lastFrame) /\ ~IsCloseRequest(lastFrame)) =>
        /\ LoopState = "ACTIVE"
        /\ \A i \in DOMAIN sent : sent[i].fr /= nframes
        /\ stopCalls = 0


\* A text frame that json.loads rejects, and the report the handler builds
\* for frame number fr.
BadJson(msg) == msg.type = "TEXT" /\ ~JsonLoads(msg.data).ok

BadJsonReport(msg, fr) ==
    HandlerMsg("error", "Invalid JSON: " \o JsonLoads(msg.data).err, fr)

MsgsOfFrame(fr) == { i \in DOMAIN sent : sent[i].fr = fr }

StartSucceeded == EngineOkOf("start") /= {}

C5_CloseRequestTerminates ==
    /\ [](exitPath = "close_request" => LoopState = "CLOSED")
    /\ (exitPath = "close_request") ~> (pc = "done")
    /\ []((exitPath = "close_request" /\ Returned) =>
            /\ pc = "done"
            /\ stopCalls = 1
            /\ engineStops = IF StartSucceeded THEN 1 ELSE 0)

\* The close request was served although recognition never ran: the stop
\* was invoked once and did not reach the engine.
C5_Witness ==
    /\ exitPath = "close_request"
    /\ pc = "done"
    /\ speech_recognizer /= None
    /\ ~StartSucceeded
    /\ stopCalls = 1
    /\ engineStops = 0

\* Two calls in a row of the same method.
TwiceInARow(op) ==
    { i \in 1..(Len(calls) - 1) : calls[i].op = op /\ calls[i + 1].op = op }

\* C6 as stated: of two consecutive start_recognition calls only one invokes
\* start_continuous_recognition, of two consecutive stop_recognition calls
\* only one invokes stop_continuous_recognition, and at most one upstream
\* session is active.
C6_Original ==
    /\ \A op \in {"start", "stop"} : \A i \in TwiceInARow(op) :
          ~(calls[i].invoked /\ calls[i + 1].invoked)
    /\ sessions \in {0, 1}

\* C6 amended: of two consecutive start_recognition calls the second invokes
\* start_continuous_recognition only when the first invocation raised, so the
\* engine is started at most once; likewise for stop_recognition and
\* stop_continuous_recognition; and at most one upstream session is active,
\* exactly when is_running is set.
C6_IdempotentStartStop ==
    /\ \A op \in {"start", "stop"} : \A i \in TwiceInARow(op) :
          calls[i + 1].invoked => (calls[i].invoked /\ ~calls[i].ok)
    /\ sessions \in {0, 1}
    /\ is_running = (sessions = 1)

\* start, start, stop, stop on a manager with a recognizer: the first of
\* each pair reached the engine, the second was a no-op.
C6_Witness ==
    /\ Len(calls) = 4
    /\ calls[1] = [op |-> "start", invoked |-> TRUE, ok |-> TRUE]
    /\ calls[2] = [op |-> "start", invoked |-> FALSE, ok |-> TRUE]
    /\ calls[3] = [op |-> "stop", invoked |-> TRUE, ok |-> TRUE]
    /\ calls[4] = [op |-> "stop", invoked |-> FALSE, ok |-> TRUE]


ConfigMissing == ~api_key \/ ~region

ConfigErrorMsg ==
    HandlerMsg("error",
        "Failed to initialize speech recognition: Please set api_key and region in your .env file",
        0)

\* C7: with api_key or region missing, the connection hands exactly one
\* message, the configuration error, to the socket; no recognizer is built,
\* recognition is never started and no upstream event occurs. Every /health
\* response has the same body, whatever happened to the connection.
C7_MissingConfig ==
    /\ (ConfigMissing /\ pc = "init") => sent = <<>>
    /\ (ConfigMissing /\ pc /= "init") =>
          /\ sent = <<ConfigErrorMsg>>
          /\ wire \in {<<>>, <<ConfigErrorMsg>>}
          /\ speech_recognizer = None
          /\ calls = <<>>
          /\ ~is_running
          /\ sessions = 0
          /\ nevents = 0
    /\ health \in {NoResponse, HealthBody}

\* The region is missing, the client has received the one error frame, the
\* handler has returned and /health answers as ever.
C7_Witness ==
    /\ api_key /\ ~region
    /\ pc = "done"
    /\ wire = <<ConfigErrorMsg>>
    /\ health = HealthBody

\* The messages built so far, written or still to be written.
Built == { sent[i] : i \in DOMAIN sent } \cup { queue[i] : i \in DOMAIN queue }

\* C8: when the client receives the final_transcript of an utterance, it has
\* already received every partial_transcript raised for that utterance,
\* whatever the interleaving of the callback thread's submissions with the
\* loop's execution of them.
C8_PartialBeforeFinal ==
    \A j \in DOMAIN wire :
        wire[j].type = "final_transcript" =>
            \A m \in Built :
                (m.type = "partial_transcript" /\ m.utt = wire[j].utt) =>
                    \E i \in 1..(j - 1) : wire[i] = m

\* The partial "hel" and then the final "hello" of one utterance are on the
\* wire.
C8_Witness ==
    \E i, j \in DOMAIN wire :
        /\ i < j
        /\ wire[i].type = "partial_transcript" /\ wire[i].text = "hel"
        /\ wire[j].type = "final_transcript" /\ wire[j].text = "hello"
        /\ wire[i].utt = wire[j].utt

\* The text the client is to read for a Canceled event.
CanceledText(evt) ==
    IF evt.reason = "Error"
    THEN "Recognition canceled. Reason: CancellationReason.Error Error details: connection lost"
    ELSE "Recognition canceled. Reason: CancellationReason." \o evt.reason

MsgsOfEvent(n) ==
    Cardinality({ i \in DOMAIN sent : sent[i].ev = n })
    + Cardinality({ i \in DOMAIN queue : queue[i].ev = n })

\* C9: a Canceled event builds exactly one message, of type error, whose text
\* is "Recognition canceled. Reason: <reason>", followed by
\* " Error details: <details>" exactly when the reason is Error.
C9_CanceledMessage ==
    lastEvent.kind = "Canceled" =>
        /\ MsgsOfEvent(lastEvent.n) = 1
        /\ \A m \in Built :
              m.ev = lastEvent.n =>
                  /\ m.type = "error"
                  /\ m.text = CanceledText(lastEvent)

\* A cancellation with reason Error reached the client with its details.
C9_Witness ==
    /\ lastEvent.kind = "Canceled"
    /\ lastEvent.reason = "Error"
    /\ \E i \in DOMAIN wire :
          /\ wire[i].ev = lastEvent.n
          /\ wire[i].text =
                "Recognition canceled. Reason: CancellationReason.Error Error details: connection lost"

\* C10 as stated: a handler that ended because of an initialization failure,
\* a transport ERROR frame or an exception in the loop body has sent at
\* least one error message on the connection.
C10_Original ==
    (Returned /\ exitPath \in {"", "transport_error", "exception"}) =>
        \E i \in DOMAIN sent : sent[i].type = "error"

\* The texts of the exceptions the loop body raises.
LoopExcTexts ==
    { WriteErrorText, "'list' object has no attribute 'get'" }

\* C10 amended: a handler that ended because of an initialization failure
\* or an exception in the loop body has handed an error message about it to
\* the socket before it ended; a transport ERROR frame ends the session
\* without any message about it.
C10_FailuresReported ==
    /\ (Returned /\ exitPath = "") =>
          \E i \in DOMAIN sent : sent[i] \in InitErrorMsgs
    /\ (Returned /\ exitPath = "exception") =>
          \E i \in DOMAIN sent : \E t \in LoopExcTexts :
              sent[i] = HandlerMsg("error", "Server error: " \o t, nframes)
    /\ exitPath = "transport_error" => MsgsOfFrame(nframes) = {}

\* A JSON array raised in the loop body; the client received the
\* "Server error" frame and the handler returned.
C10_Witness ==
    /\ pc = "done"
    /\ exitPath = "exception"
    /\ Len(wire) > 0
    /\ wire[Len(wire)] =
          HandlerMsg("error", "Server error: 'list' object has no attribute 'get'", nframes)


\* C11: no failure escapes the connection handler: after the socket is
\* prepared, whatever fails (initialization, JSON parsing, the loop body, a
\* socket write that reports an error, the stop), the handler returns
\* normally and no exception propagates to its caller.
C11_Original == pc /= "raised"


\* The messages handed to the socket by this step that were built from an
\* upstream event.
NewEventWrites ==
    { i \in DOMAIN sent' : i > Len(sent) /\ sent'[i].ev > 0 }

\* C12: every socket write caused by an upstream event is performed by the
\* event loop: the step in which the callback thread takes an event hands
\* nothing to the socket and only submits to the loop, and a message built
\* from an event is handed to the socket only by the step in which the loop
\* runs the oldest submitted coroutine, which is that message's.
C12_WritesOnLoop ==
    [][ /\ nevents' /= nevents =>
              /\ sent' = sent /\ wire' = wire
              /\ \/ queue' = queue
                 \/ /\ Len(queue') = Len(queue) + 1
                    /\ SubSeq(queue', 1, Len(queue)) = queue
                    /\ queue'[Len(queue')].ev = nevents'
        /\ NewEventWrites /= {} =>
              /\ nevents' = nevents
              /\ queue /= <<>>
              /\ sent' = Append(sent, Head(queue))
              /\ queue' = Tail(queue)
      ]_vars

\* Two events were taken by the callback thread: the loop has written the
\* first one's message and the second one's is still waiting in the loop.
C12_Witness ==
    /\ nevents = 2
    /\ Len(queue) = 1 /\ queue[1].ev = 2
    /\ Len(wire) = 1 /\ wire[1].ev = 1


\* C13: with several connections open at once, each has its own recognizer
\* and its own running flag: a message built from an event of one
\* connection's recognizer is handed to that connection's socket only, and
\* as long as a connection is in its message loop its manager still points
\* at its own socket and recognizer, and its flag and its upstream session
\* are as its own start left them, whatever the other connections did
\* (opened, closed, failed).
C13_Isolated ==
    /\ \A c \in Conns : \A i \in DOMAIN sockets[c] :
          sockets[c][i].rec \in {NoRec, NewRecognizer(c)}
    /\ \A c \in Conns : handlers[c].pc = "loop" =>
          LET mgr == managers[handlers[c].transcription_manager]
          IN  /\ mgr.ws = c
              /\ mgr.speech_recognizer = NewRecognizer(c)
              /\ mgr.is_running = handlers[c].started
              /\ engines[NewRecognizer(c)].active = handlers[c].started

\* Two connections were recognizing at once and each socket was handed an
\* event of its own recognizer; then one of them failed, reported the
\* exception and stopped its recognizer, and the other one is still running.
C13_Witness ==
    \E c, d \in Conns :
        /\ c /= d
        /\ handlers[c].pc = "done" /\ handlers[c].started
        /\ ~engines[NewRecognizer(c)].active
        /\ sockets[c] = <<PoolMsg("partial_transcript", NewRecognizer(c)),
                          PoolMsg("error", NoRec)>>
        /\ handlers[d].pc = "loop" /\ handlers[d].started
        /\ sockets[d] = <<PoolMsg("partial_transcript", NewRecognizer(d))>>


\* C14 as stated: on every exit path of the handler of a session whose
\* recognizer was started, upstream continuous recognition is no longer
\* running once the handler has returned, also when
\* stop_continuous_recognition itself fails.
C14_Original ==
    (Returned /\ StartSucceeded) => sessions = 0

\* The stop_continuous_recognition calls that returned.
StopSucceeded == EngineOkOf("stop") /= {}

\* C14 amended: on every exit path of the handler of a session whose
\* recognizer was started, stop_continuous_recognition has been called
\* exactly once by the time the handler has returned; upstream recognition
\* is no longer running and the flag is cleared when that call returned,
\* and when it raised the flag is still set.
C14_StopAttempted ==
    (Returned /\ StartSucceeded) =>
        /\ engineStops = 1
        /\ StopSucceeded => (sessions = 0 /\ ~is_running)
        /\ ~StopSucceeded => is_running

\* The transport closed a session that was recognizing; the handler
\* returned and the upstream session is released.
C14_Witness ==
    /\ pc = "done"
    /\ exitPath = "transport_close"
    /\ StartSucceeded /\ StopSucceeded
    /\ sessions = 0 /\ ~is_running


\* str(e) of the exception the loop body raised on the frame read last.
RaisedText ==
    IF BadJson(lastFrame)
    THEN WriteErrorText
    ELSE AttributeErrorText(JsonLoads(lastFrame.data))

\* The "Server error" messages handed to the socket.
ServerErrors ==
    { i \in DOMAIN sent :
        /\ sent[i].type = "error"
        /\ \E t \in LoopExcTexts : sent[i].text = "Server error: " \o t }

\* C15: an exception raised in the loop body is caught once and yields
\* exactly one outbound message {type: error, text: "Server error: " and the
\* exception's text}, and that message is sent before stop_recognition runs
\* in the cleanup step: none and no stop while the exception is being
\* caught, one and still no stop when the cleanup step is reached, one and
\* one stop when the handler has ended; no such message without an
\* exception.
C15_ServerErrorBeforeStop ==
    /\ pc = "except" =>
          /\ exitPath = "exception" /\ pendingExc = RaisedText
          /\ ServerErrors = {} /\ stopCalls = 0
    /\ (pc = "finally" /\ exitPath = "exception") =>
          /\ Cardinality(ServerErrors) = 1 /\ stopCalls = 0
    /\ (Returned /\ exitPath = "exception") =>
          /\ Cardinality(ServerErrors) = 1 /\ stopCalls = 1
    /\ exitPath = "exception" =>
          \A i \in ServerErrors :
              sent[i] = HandlerMsg("error", "Server error: " \o RaisedText, nframes)
    /\ exitPath /= "exception" => ServerErrors = {}

\* data.get raised on a JSON array: the "Server error" message was written
\* to the socket and the cleanup step has not run yet.
C15_Witness ==
    /\ pc = "finally"
    /\ exitPath = "exception"
    /\ lastFrame = [type |-> "TEXT", data |-> "[]"]
    /\ stopCalls = 0
    /\ \E i \in DOMAIN wire :
          wire[i] = HandlerMsg("error",
                        "Server error: 'list' object has no attribute 'get'", nframes)


\* start_continuous_recognition was called and raised.
StartFailed == EngineCallsOf("start") /= {} /\ ~StartSucceeded

\* C16: start_recognition sets the running flag only when
\* start_continuous_recognition succeeds. When it raises, the exception is
\* swallowed: the flag stays false, no upstream session runs and no event
\* arrives, nothing is handed to the socket on account of the start, and
\* the handler goes on into the message loop, ACTIVE, where it reads its
\* frames.
C16_StartFailureSwallowed ==
    /\ is_running => StartSucceeded
    /\ StartFailed =>
          /\ ~is_running /\ sessions = 0 /\ nevents = 0
          /\ MsgsOfFrame(0) = {}
          /\ pendingExc = "" \/ nframes > 0
          /\ nframes = 0 => (LoopState = "ACTIVE" /\ sent = <<>>)

\* start_continuous_recognition raised; the handler is in its message loop
\* and has read a first frame, nothing was handed to the socket.
C16_Witness ==
    /\ StartFailed
    /\ LoopState = "ACTIVE"
    /\ nframes = 1
    /\ ~is_running
    /\ sent = <<>>


\* C17: a Recognized event whose result reason is RecognizedSpeech builds
\* exactly one message, a final_transcript carrying the event's text; a
\* Recognized event with another reason (NoMatch) builds no message.
C17_FinalOnlyForSpeech ==
    lastEvent.kind = "Recognized" =>
        IF lastEvent.reason = "RecognizedSpeech"
        THEN /\ MsgsOfEvent(lastEvent.n) = 1
             /\ \A m \in Built :
                   m.ev = lastEvent.n =>
                       /\ m.type = "final_transcript"
                       /\ m.text = lastEvent.text
        ELSE MsgsOfEvent(lastEvent.n) = 0

\* The final transcript "hello" of a first utterance reached the client;
\* then a NoMatch result was raised and nothing was built for it.
C17_Witness ==
    /\ lastEvent.kind = "Recognized"
    /\ lastEvent.reason = "NoMatch"
    /\ lastEvent.n = 2
    /\ queue = <<>>
    /\ Len(wire) = 1
    /\ wire[1].type = "final_transcript" /\ wire[1].text = "hello"
    /\ wire[1].ev = 1


\* What a step leaves alone when it does not touch the session: the
\* handler's position, the way out of the loop, the running flag, the
\* upstream session and the calls of start_recognition / stop_recognition.
SessionUntouched ==
    /\ pc' = pc /\ exitPath' = exitPath /\ pendingExc' = pendingExc
    /\ is_running' = is_running /\ sessions' = sessions /\ calls' = calls

\* C18: a Canceled or SessionStopped event taken while the loop is ACTIVE
\* only builds its message (error, resp. info "Session stopped") and
\* submits it: the loop stays ACTIVE, the running flag is unchanged and
\* stop_recognition is not invoked, neither by the callback nor when the
\* loop writes the message. The loop is left only by a step of the handler
\* that read a frame and took one of the four ways out (close request,
\* transport close, transport error, exception in the loop body).
C18_EventsDoNotEndSession ==
    [][ /\ (pc = "loop" /\ nevents' /= nevents
               /\ lastEvent'.kind \in {"Canceled", "SessionStopped"}) =>
              /\ SessionUntouched
              /\ sent' = sent
              /\ Len(queue') = Len(queue) + 1
              /\ queue'[Len(queue')].ev = nevents'
              /\ queue'[Len(queue')].type =
                    (IF lastEvent'.kind = "Canceled" THEN "error" ELSE "info")
        /\ (pc = "loop" /\ NewEventWrites /= {}) => SessionUntouched
        /\ (pc = "loop" /\ pc' /= "loop") =>
              /\ nframes' = nframes + 1
              /\ exitPath' \in ExitPaths
      ]_vars

\* The upstream session stopped while the loop was ACTIVE: the client has
\* the info message, the loop is still ACTIVE and has read a frame since,
\* the flag is still set and stop_recognition was not called.
C18_Witness ==
    /\ lastEvent.kind = "SessionStopped"
    /\ \E i \in DOMAIN wire :
          /\ wire[i].ev = lastEvent.n
          /\ wire[i].type = "info" /\ wire[i].text = "Session stopped"
    /\ LoopState = "ACTIVE"
    /\ nframes > 0
    /\ is_running
    /\ stopCalls = 0


Handled(msg) == msg.type \in {"TEXT", "ERROR", "CLOSE"}

\* C20: while ACTIVE, an inbound frame that is neither TEXT, ERROR nor
\* CLOSE (a binary frame) is ignored: after it the loop is still ACTIVE, no
\* message was handed to the socket for it, no exception is pending, the
\* running flag is as the start left it and stop_recognition was not
\* called.
C20_OtherFramesIgnored ==
    (nframes > 0 /\ ~Handled(lastFrame)) =>
        /\ LoopState = "ACTIVE"
        /\ exitPath = "" /\ pendingExc = ""
        /\ MsgsOfFrame(nframes) = {}
        /\ is_running = StartSucceeded
        /\ stopCalls = 0

\* Two binary frames were read one after the other by a session that is
\* recognizing: the loop is ACTIVE and the socket was handed nothing.
C20_Witness ==
    /\ nframes = 2
    /\ lastFrame.type = "BINARY"
    /\ LoopState = "ACTIVE"
    /\ is_running
    /\ nevents = 0
    /\ sent = <<>>

====
